---- MODULE Spec2Model ----
(***************************************************************************)
(* CHEQR - QR-code attendance protocol.                                    *)
(*                                                                         *)
(* Lecturer side : CourseCard (lookup of a live token, confirmation,       *)
(*                 mint request) in the lecturer dashboard.                *)
(* Student side  : StudentDashboard.handleBarCodeScanned, the validation   *)
(*                 chain in front of POST attendance/scan.                 *)
(* Backend       : the REST collaborator behind attendance/generate-qr,    *)
(*                 attendance/course/:id and attendance/scan.  Its code is *)
(*                 not part of the client sources; it is modelled from the *)
(*                 external interfaces of the specification.               *)
(*                                                                         *)
(* Time is counted in milliseconds since the epoch, as Date.getTime().     *)
(***************************************************************************)
EXTENDS Integers, Sequences, FiniteSets, TLC

\* ------------------------------------------------------------------------
\* Bounds of the model
\* ------------------------------------------------------------------------
MaxTicks == 2
MaxSessions == 2

Courses == {"cA", "cB"}
Students == {"s1", "s2"}
Devices == {"d1", "d2"}
Cards == {"k1", "k2"}
\* handleBarCodeScanned calls that one device runs at a time: a barcode event
\* is taken when a slot is free
Slots == {1, 2}

\* ------------------------------------------------------------------------
\* Program constants
\* ------------------------------------------------------------------------
OneSecond == 1000
OneHour == 60 * 60 * 1000
PhilippineOffset == 8 * 60 * 60 * 1000
OneDay == 24 * OneHour
OneMinute == 60 * OneSecond
ThrottleFloor == 3000
PollInterval == 10000
RecentWindow == 5 * 60 * 1000

ClockSteps == {OneSecond, OneHour}

\* ------------------------------------------------------------------------
\* Date: toISOString and new Date(string)
\* An ISO-8601 string is modelled by its fields <<day, hh, mm, ss, ms>>;
\* <<>> stands for a property that is absent (undefined).
\* ------------------------------------------------------------------------
Undefined == <<>>

\* a formatter that stops at the minutes
toISOString_Minutes(ms) ==
    << ms \div OneDay, (ms % OneDay) \div OneHour, (ms % OneHour) \div OneMinute, 0, 0 >>

toISOString(ms) ==
    << ms \div OneDay,
       (ms % OneDay) \div OneHour,
       (ms % OneHour) \div OneMinute,
       (ms % OneMinute) \div OneSecond,
       ms % OneSecond >>

DateParse(iso) ==
    iso[1] * OneDay + iso[2] * OneHour + iso[3] * OneMinute
        + iso[4] * OneSecond + iso[5]

getPhilippineTime(now) == now + PhilippineOffset

\* ------------------------------------------------------------------------
\* Directory of courses (static part)
\* ------------------------------------------------------------------------
CourseCode(c) == IF c = "cA" THEN "CS101" ELSE "MATH201"
CourseName(c) == IF c = "cA" THEN "Computing" ELSE "Calculus"
LecturerOf(c) == IF c = "cA" THEN "lecX" ELSE "lecY"
CardCourse(k) == "cA"

\* ------------------------------------------------------------------------
\* JSON text.  A text is [tag, members]: tag "text" is not JSON at all,
\* "null" / "number" / "string" are JSON values that are not objects, and
\* "object" carries its members in the order JSON.stringify wrote them.
\* A member is [k, s, t]: key, string value, timestamp value.
\* ------------------------------------------------------------------------
StrMember(key, str) == [k |-> key, s |-> str, t |-> Undefined]
TimeMember(key, iso) == [k |-> key, s |-> "", t |-> iso]

JsonStringify(obj) ==
    [tag |-> "object",
     members |-> << StrMember("courseId", obj.courseId),
                    StrMember("courseCode", obj.courseCode),
                    StrMember("courseName", obj.courseName),
                    TimeMember("generatedAt", obj.generatedAt),
                    TimeMember("expiresAt", obj.expiresAt) >>]

JsonParses(text) == text.tag # "text"

HasKey(text, key) ==
    /\ text.tag = "object"
    /\ \E i \in 1..Len(text.members) : text.members[i].k = key

Member(text, key) ==
    text.members[CHOOSE i \in 1..Len(text.members) : text.members[i].k = key]

\* obj.key for a string-valued property; "" is the falsy undefined
GetStr(text, key) == IF HasKey(text, key) THEN Member(text, key).s ELSE ""
\* obj.key for a timestamp property; Undefined when absent
GetTime(text, key) == IF HasKey(text, key) THEN Member(text, key).t ELSE Undefined

\* ------------------------------------------------------------------------
\* LecturerDashboard.generateQRData: the token payload minted at `now`
\* ------------------------------------------------------------------------
\* a payload whose expiry is counted from the unshifted clock
generateQRData_UnshiftedExpiry(c, now) ==
    LET phTime == getPhilippineTime(now)
        expiryTime == now + OneHour
    IN  JsonStringify([courseId |-> c,
                       courseCode |-> CourseCode(c),
                       courseName |-> CourseName(c),
                       generatedAt |-> toISOString(phTime),
                       expiresAt |-> toISOString(expiryTime)])

generateQRData(c, now) ==
    LET phTime == getPhilippineTime(now)
        expiryTime == phTime + OneHour
    IN  JsonStringify([courseId |-> c,
                       courseCode |-> CourseCode(c),
                       courseName |-> CourseName(c),
                       generatedAt |-> toISOString(phTime),
                       expiresAt |-> toISOString(expiryTime)])

\* ------------------------------------------------------------------------
\* State
\* ------------------------------------------------------------------------
VARIABLES
    now,                    \* the real clock, ms since the epoch
    ticks,                  \* number of clock steps taken
    sessions,               \* backend: attendance sessions, oldest first
    enrollment,             \* backend: course -> enrolled student ids
    \* CourseCard (one per lecturer device)
    showQRModal, showConfirmModal, qrData, isLoading,
    cardPc,                 \* position of the card's generate handlers
    genLog,                 \* history: how the card's generate request went
    raced,                  \* history: both lookups ended before a mint was sent
    alert,                  \* the Alert dialog the card shows ("" for none)
    newScans,               \* the badge of the card
    lastCheckTime,          \* lastCheckTime.current of the card
    polls,                  \* running handleNewScan calls: the `now` each read
    mounted,                \* the card is on screen (its effects are set up)
    nextTick,               \* earliest instant of the next setInterval callback
    remainingTime,          \* the countdown text of the card
    attendanceRecords, showAttendanceModal,
    viewPc,                 \* position of the card's handleViewAttendance
    viewed,                 \* history: scans of the card's course in the ledger when
                            \* the attendance was last viewed, -1 before any view
    \* StudentDashboard (one per student device)
    currentUserId, courses, hasPermission, isScannerVisible, scanned,
    currentScanningCourse, showSuccessModal, showErrorModal, errorMessage,
    handlers,               \* running handleBarCodeScanned calls
    timers,                 \* pending success timers (setTimeout 2000)
    reopened,               \* history: the scanner was opened (no modal over the Scan
                            \* button) while a success timer was pending
    lastScan,               \* history: the scan attempt the last step resolved
    lastPoll                \* history: what the last step did in handleNewScan

clockVars == <<now, ticks>>
serverVars == <<sessions, enrollment>>
pollVars == <<newScans, lastCheckTime, polls, mounted, nextTick>>
viewVars == <<remainingTime, attendanceRecords, showAttendanceModal, viewPc, viewed>>
genVars == <<showQRModal, showConfirmModal, qrData, isLoading, cardPc, genLog, raced,
             alert>>
cardVars == <<genVars, pollVars, viewVars>>
studentVars == <<currentUserId, courses, hasPermission, isScannerVisible, scanned,
                 currentScanningCourse, showSuccessModal, showErrorModal,
                 errorMessage, handlers, timers, reopened>>
vars == <<clockVars, serverVars, cardVars, studentVars, lastScan, lastPoll>>

NotJson == [tag |-> "text", members |-> <<>>]
NullQR == [data |-> NotJson, expiresAt |-> Undefined]
NullCourse == [_id |-> "", courseCode |-> "", students |-> {}]
NoMessage == [kind |-> "", a |-> "", b |-> ""]
NoScan == [data |-> NotJson, course |-> "", at |-> 0, listed |-> FALSE,
           enrolled |-> FALSE, duplicate |-> FALSE, posted |-> FALSE,
           outcome |-> "none"]
NoHandler == [pc |-> "idle", data |-> NotJson, course |-> NullCourse, courses |-> {},
              rec |-> NoScan]
NoGen == [phase |-> "idle", token |-> NotJson]
NoRemainingTime == [text |-> "", minutes |-> 0]

\* lastScan after a step that resolved no scan attempt
NoScans == [d \in Devices |-> NoScan]
NoPolls == [k \in Cards |-> "none"]
Forget == lastScan' = NoScans /\ lastPoll' = NoPolls

\* ------------------------------------------------------------------------
\* Backend (REST collaborator)
\* ------------------------------------------------------------------------
\* GET attendance/course/:id
ListSessionsForCourse(c) == SelectSeq(sessions, LAMBDA r : r.courseId = c)

\* POST attendance/generate-qr: the new row of the session store
CreateSession(c, t) ==
    LET token == generateQRData(c, t)
    IN  [courseId |-> c,
         qrCodeData |-> token,
         generatedAt |-> GetTime(token, "generatedAt"),
         expiresAt |-> GetTime(token, "expiresAt"),
         scannedBy |-> <<>>]

\* a token is live while its expiry lies ahead of the institutional clock
IsLive(r, t) == DateParse(r.expiresAt) > getPhilippineTime(t)

LiveSessions(c, t) ==
    {i \in 1..Len(sessions) : sessions[i].courseId = c /\ IsLive(sessions[i], t)}

\* ------------------------------------------------------------------------
\* Clock
\* ------------------------------------------------------------------------
TickBy(d) ==
    /\ ticks < MaxTicks
    /\ now' = now + d
    /\ ticks' = ticks + 1
    /\ UNCHANGED <<serverVars, cardVars, studentVars>>
    /\ Forget

Tick == \E d \in ClockSteps : TickBy(d)

\* ------------------------------------------------------------------------
\* CourseCard: generating a QR code
\* ------------------------------------------------------------------------
\* Alert.alert('Error', 'Failed to generate QR code. Please try again.')
GenerateFailed == "Failed to generate QR code. Please try again."

\* handleGenerateQR up to the fetch inside checkExistingQRCode
handleGenerateQR(k) ==
    /\ cardPc[k] = "idle"
    /\ ~showConfirmModal[k]
    /\ ~showQRModal[k]
    /\ cardPc' = [cardPc EXCEPT ![k] = "lookup"]
    /\ genLog' = [genLog EXCEPT ![k] = NoGen]
    /\ raced' = FALSE
    /\ UNCHANGED <<clockVars, serverVars, studentVars, pollVars, viewVars,
                   showQRModal, showConfirmModal, qrData, isLoading, alert>>
    /\ Forget

\* a lookup that tests the first record only
FindValidRecord_FirstOnly(records, t) ==
    IF Len(records) > 0 /\ IsLive(records[1], t) THEN 1 ELSE 0

\* records.find(record => new Date(record.expiresAt) > phTime)
FindValidRecord(records, t) ==
    LET valid == {i \in 1..Len(records) : IsLive(records[i], t)}
    IN  IF valid = {} THEN 0 ELSE CHOOSE i \in valid : \A j \in valid : i <= j

\* checkExistingQRCode from the response of the fetch on, and the rest of
\* handleGenerateQR; fetchOk is FALSE for a network error or a non-OK answer
checkExistingQRCode(k, fetchOk) ==
    /\ cardPc[k] = "lookup"
    /\ cardPc' = [cardPc EXCEPT ![k] = "idle"]
    /\ LET records == ListSessionsForCourse(CardCourse(k))
           found == IF fetchOk THEN FindValidRecord(records, now) ELSE 0
       IN  IF found # 0
           THEN /\ qrData' = [qrData EXCEPT ![k] =
                                [data |-> records[found].qrCodeData,
                                 expiresAt |-> records[found].expiresAt]]
                /\ showQRModal' = [showQRModal EXCEPT ![k] = TRUE]
                /\ genLog' = [genLog EXCEPT ![k] =
                                [phase |-> "existing",
                                 token |-> records[found].qrCodeData]]
                /\ UNCHANGED showConfirmModal
           ELSE /\ showConfirmModal' = [showConfirmModal EXCEPT ![k] = TRUE]
                /\ genLog' = [genLog EXCEPT ![k] =
                                [phase |-> IF fetchOk THEN "looked" ELSE "lookupFailed",
                                 token |-> NotJson]]
                /\ UNCHANGED <<qrData, showQRModal>>
    /\ UNCHANGED <<clockVars, serverVars, studentVars, pollVars, viewVars, isLoading, raced,
                   alert>>
    /\ Forget

\* the Cancel button and onRequestClose of the confirmation modal
CancelConfirm(k) ==
    /\ showConfirmModal[k]
    /\ showConfirmModal' = [showConfirmModal EXCEPT ![k] = FALSE]
    /\ genLog' = [genLog EXCEPT ![k] = NoGen]
    /\ raced' = FALSE
    /\ UNCHANGED <<clockVars, serverVars, studentVars, pollVars, viewVars,
                   showQRModal, qrData, isLoading, cardPc, alert>>
    /\ Forget

\* handleConfirmGenerateQR and generateQRData up to the POST
handleConfirmGenerateQR(k) ==
    /\ showConfirmModal[k]
    /\ cardPc[k] = "idle"
    /\ showConfirmModal' = [showConfirmModal EXCEPT ![k] = FALSE]
    /\ IF LecturerOf(CardCourse(k)) = ""
       THEN \* 'Lecturer ID not found': Alert, return null
            /\ genLog' = [genLog EXCEPT ![k] = [phase |-> "failed", token |-> NotJson]]
            /\ alert' = [alert EXCEPT ![k] = GenerateFailed]
            /\ UNCHANGED <<isLoading, cardPc, raced>>
       ELSE /\ isLoading' = [isLoading EXCEPT ![k] = TRUE]
            /\ cardPc' = [cardPc EXCEPT ![k] = "minting"]
            /\ genLog' = [genLog EXCEPT ![k].phase = "sent"]
            /\ raced' = (raced \/ (/\ genLog[k].phase = "looked"
                                   /\ \A o \in Cards : genLog[o].phase = "looked"))
            /\ UNCHANGED alert
    /\ UNCHANGED <<clockVars, serverVars, studentVars, pollVars, viewVars, showQRModal, qrData>>
    /\ Forget

\* a generateQRData without its catch and finally blocks
CardGenerateQRData_Uncaught(k, ok) ==
    /\ cardPc[k] = "minting"
    /\ ok => Len(sessions) < MaxSessions
    /\ cardPc' = [cardPc EXCEPT ![k] = "idle"]
    /\ IF ok
       THEN LET row == CreateSession(CardCourse(k), now)
            IN  /\ sessions' = Append(sessions, row)
                /\ qrData' = [qrData EXCEPT ![k] =
                                [data |-> row.qrCodeData, expiresAt |-> row.expiresAt]]
                /\ showQRModal' = [showQRModal EXCEPT ![k] = TRUE]
                /\ isLoading' = [isLoading EXCEPT ![k] = FALSE]
                /\ genLog' = [genLog EXCEPT ![k] =
                                [phase |-> "done", token |-> row.qrCodeData]]
                /\ UNCHANGED <<raced, alert>>
       ELSE /\ genLog' = [genLog EXCEPT ![k] = [phase |-> "failed", token |-> NotJson]]
            /\ raced' = FALSE
            /\ UNCHANGED <<sessions, qrData, showQRModal, isLoading, alert>>
    /\ UNCHANGED <<clockVars, enrollment, studentVars, pollVars, viewVars, showConfirmModal>>
    /\ Forget

\* generateQRData of the card from the response of the POST on, and the rest
\* of handleConfirmGenerateQR; ok is FALSE for a network error or non-OK answer
CardGenerateQRData(k, ok) ==
    /\ cardPc[k] = "minting"
    /\ ok => Len(sessions) < MaxSessions
    /\ cardPc' = [cardPc EXCEPT ![k] = "idle"]
    /\ isLoading' = [isLoading EXCEPT ![k] = FALSE]
    /\ IF ok
       THEN LET row == CreateSession(CardCourse(k), now)
            IN  /\ sessions' = Append(sessions, row)
                /\ qrData' = [qrData EXCEPT ![k] =
                                [data |-> row.qrCodeData, expiresAt |-> row.expiresAt]]
                /\ showQRModal' = [showQRModal EXCEPT ![k] = TRUE]
                /\ genLog' = [genLog EXCEPT ![k] =
                                [phase |-> "done", token |-> row.qrCodeData]]
                /\ UNCHANGED <<raced, alert>>
       ELSE /\ genLog' = [genLog EXCEPT ![k] = [phase |-> "failed", token |-> NotJson]]
            /\ alert' = [alert EXCEPT ![k] = GenerateFailed]
            /\ raced' = FALSE
            /\ UNCHANGED <<sessions, qrData, showQRModal>>
    /\ UNCHANGED <<clockVars, enrollment, studentVars, pollVars, viewVars, showConfirmModal>>
    /\ Forget

\* the close button and onRequestClose of the QR modal
CloseQRModal(k) ==
    /\ showQRModal[k]
    /\ showQRModal' = [showQRModal EXCEPT ![k] = FALSE]
    /\ UNCHANGED <<clockVars, serverVars, studentVars, pollVars, viewVars,
                   showConfirmModal, qrData, isLoading, cardPc, genLog, raced, alert>>
    /\ Forget

\* the countdown effect: diffInMinutes = Math.floor(diffInMs / (1000 * 60)),
\* the token is reported expired when diffInMinutes <= 0
RemainingMinutes(expiresAt, t) ==
    (DateParse(expiresAt) - getPhilippineTime(t)) \div OneMinute

\* a countdown that compares the expiry with the unshifted clock
CountdownExpired_Unshifted(expiresAt, t) ==
    (DateParse(expiresAt) - t) \div OneMinute <= 0

CountdownExpired(expiresAt, t) == RemainingMinutes(expiresAt, t) <= 0

\* the callback of the countdown effect's setInterval(..., 1000), which runs
\* while qrData is set
CountdownTick(k) ==
    /\ mounted[k]
    /\ qrData[k] # NullQR
    /\ IF CountdownExpired(qrData[k].expiresAt, now)
       THEN /\ remainingTime' = [remainingTime EXCEPT ![k] =
                                    [text |-> "expired", minutes |-> 0]]
            /\ showQRModal' = [showQRModal EXCEPT ![k] = FALSE]
            /\ qrData' = [qrData EXCEPT ![k] = NullQR]
       ELSE /\ remainingTime' = [remainingTime EXCEPT ![k] =
                                    [text |-> "minutes",
                                     minutes |-> RemainingMinutes(qrData[k].expiresAt, now)]]
            /\ UNCHANGED <<showQRModal, qrData>>
    /\ UNCHANGED <<clockVars, serverVars, studentVars, pollVars, showConfirmModal,
                   isLoading, cardPc, genLog, raced, alert, attendanceRecords,
                   showAttendanceModal, viewPc, viewed>>
    /\ Forget

\* the OK button of the Alert dialog
DismissAlert(k) ==
    /\ alert[k] # ""
    /\ alert' = [alert EXCEPT ![k] = ""]
    /\ UNCHANGED <<clockVars, serverVars, studentVars, pollVars, viewVars, showQRModal,
                   showConfirmModal, qrData, isLoading, cardPc, genLog, raced>>
    /\ Forget

CardStep(k) ==
    \/ handleGenerateQR(k)
    \/ \E fetchOk \in BOOLEAN : checkExistingQRCode(k, fetchOk)
    \/ CancelConfirm(k)
    \/ handleConfirmGenerateQR(k)
    \/ \E ok \in BOOLEAN : CardGenerateQRData(k, ok)
    \/ CloseQRModal(k)
    \/ DismissAlert(k)

\* ------------------------------------------------------------------------
\* CourseCard: polling for new scans (useEffect on course._id)
\* ------------------------------------------------------------------------
\* a throttle without a floor
Throttled_NoFloor(t, last) == t - last < 0

\* timeSinceLastCheck < 3000
Throttled(t, last) == t - last < ThrottleFloor

\* records.reduce: the scans of every record whose generatedAt lies at most
\* five minutes before the institutional clock
RECURSIVE CountRecentScans(_, _)
CountRecentScans(records, t) ==
    IF records = <<>>
    THEN 0
    ELSE LET record == Head(records)
             timeDiff == getPhilippineTime(t) - DateParse(record.generatedAt)
         IN  (IF timeDiff <= RecentWindow THEN Len(record.scannedBy) ELSE 0)
                 + CountRecentScans(Tail(records), t)

\* handleNewScan up to the fetch, for a call that reads lastCheckTime.current
\* as `last`: a throttled call returns at once
handleNewScan(k, last) ==
    IF Throttled(now, last)
    THEN /\ lastPoll' = [NoPolls EXCEPT ![k] = "skipped"]
         /\ UNCHANGED polls
    ELSE /\ lastPoll' = [NoPolls EXCEPT ![k] = "sent"]
         /\ polls' = [polls EXCEPT ![k] = @ \cup {now}]

\* the callback of setInterval(handleNewScan, 10000): it runs no earlier
\* than ten seconds after the effect or the previous callback
IntervalTick(k) ==
    /\ mounted[k]
    /\ now >= nextTick[k]
    /\ handleNewScan(k, lastCheckTime[k])
    /\ nextTick' = [nextTick EXCEPT ![k] = now + PollInterval]
    /\ lastScan' = NoScans
    /\ UNCHANGED <<clockVars, serverVars, studentVars, genVars, viewVars,
                   newScans, lastCheckTime, mounted>>

\* a handleNewScan that writes lastCheckTime in a finally block
NewScanResponse_Finally(k, started, answer) ==
    /\ started \in polls[k]
    /\ polls' = [polls EXCEPT ![k] = @ \ {started}]
    /\ lastCheckTime' = [lastCheckTime EXCEPT ![k] = started]
    /\ IF answer = "ok"
       THEN /\ newScans' = [newScans EXCEPT ![k] =
                               IF mounted[k]
                               THEN CountRecentScans(
                                        ListSessionsForCourse(CardCourse(k)), now)
                               ELSE @]
            /\ lastPoll' = [NoPolls EXCEPT ![k] = "counted"]
       ELSE /\ lastPoll' = [NoPolls EXCEPT ![k] = "dropped"]
            /\ UNCHANGED newScans
    /\ lastScan' = NoScans
    /\ UNCHANGED <<clockVars, serverVars, studentVars, genVars, viewVars,
                   mounted, nextTick>>

\* handleNewScan from the response of the fetch on, for the call that read
\* the clock at `started`; answer is "ok", "notOk" (response.ok is false) or
\* "throws" (fetch or response.json() throws).  Nothing cancels the call when
\* the card unmounts: React drops the setNewScans of an unmounted card, the
\* write of lastCheckTime.current takes place.
NewScanResponse(k, started, answer) ==
    /\ started \in polls[k]
    /\ polls' = [polls EXCEPT ![k] = @ \ {started}]
    /\ IF answer = "ok"
       THEN /\ newScans' = [newScans EXCEPT ![k] =
                               IF mounted[k]
                               THEN CountRecentScans(
                                        ListSessionsForCourse(CardCourse(k)), now)
                               ELSE @]
            /\ lastCheckTime' = [lastCheckTime EXCEPT ![k] = started]
            /\ lastPoll' = [NoPolls EXCEPT ![k] = "counted"]
       ELSE /\ lastPoll' = [NoPolls EXCEPT ![k] = "dropped"]
            /\ UNCHANGED <<newScans, lastCheckTime>>
    /\ lastScan' = NoScans
    /\ UNCHANGED <<clockVars, serverVars, studentVars, genVars, viewVars,
                   mounted, nextTick>>

\* the card leaves the screen: the cleanup of the polling effect clears the
\* interval
UnmountCard(k) ==
    /\ mounted[k]
    /\ cardPc[k] = "idle"
    /\ viewPc[k] = "idle"
    /\ mounted' = [mounted EXCEPT ![k] = FALSE]
    /\ UNCHANGED <<clockVars, serverVars, studentVars, genVars, viewVars,
                   newScans, lastCheckTime, polls, nextTick>>
    /\ Forget

\* a new card comes on screen: useState and useRef give the initial values
\* (lastCheckTime = new Date()), then the polling effect sets the interval
\* and calls handleNewScan once ("Initial check")
MountCard(k) ==
    /\ ~mounted[k]
    /\ polls[k] = {}
    /\ mounted' = [mounted EXCEPT ![k] = TRUE]
    /\ showQRModal' = [showQRModal EXCEPT ![k] = FALSE]
    /\ showConfirmModal' = [showConfirmModal EXCEPT ![k] = FALSE]
    /\ qrData' = [qrData EXCEPT ![k] = NullQR]
    /\ isLoading' = [isLoading EXCEPT ![k] = FALSE]
    /\ genLog' = [genLog EXCEPT ![k] = NoGen]
    /\ alert' = [alert EXCEPT ![k] = ""]
    /\ remainingTime' = [remainingTime EXCEPT ![k] = NoRemainingTime]
    /\ attendanceRecords' = [attendanceRecords EXCEPT ![k] = <<>>]
    /\ showAttendanceModal' = [showAttendanceModal EXCEPT ![k] = FALSE]
    /\ newScans' = [newScans EXCEPT ![k] = 0]
    /\ lastCheckTime' = [lastCheckTime EXCEPT ![k] = now]
    /\ nextTick' = [nextTick EXCEPT ![k] = now + PollInterval]
    /\ handleNewScan(k, now)
    /\ lastScan' = NoScans
    /\ viewed' = [viewed EXCEPT ![k] = -1]
    /\ UNCHANGED <<clockVars, serverVars, studentVars, cardPc, raced, viewPc>>

PollStep(k) ==
    \/ IntervalTick(k)
    \/ \E started \in polls[k], answer \in {"ok", "notOk", "throws"} :
            NewScanResponse(k, started, answer)

MountStep(k) ==
    \/ UnmountCard(k)
    \/ MountCard(k)

\* ------------------------------------------------------------------------
\* CourseCard: viewing the attendance
\* ------------------------------------------------------------------------
\* Alert.alert('Error', 'Failed to fetch attendance records. Please try again.')
FetchFailed == "Failed to fetch attendance records. Please try again."

\* a record put into a list that is sorted by generatedAt, latest first
RECURSIVE InsertByGeneratedAt(_, _)
InsertByGeneratedAt(sorted, record) ==
    IF sorted = <<>>
    THEN <<record>>
    ELSE IF DateParse(Head(sorted).generatedAt) >= DateParse(record.generatedAt)
    THEN <<Head(sorted)>> \o InsertByGeneratedAt(Tail(sorted), record)
    ELSE <<record>> \o sorted

\* a handler that shows the records in the order of the answer
SortByGeneratedAt_Unsorted(records) == records

\* records.sort((a, b) => new Date(b.generatedAt).getTime()
\*                         - new Date(a.generatedAt).getTime())
RECURSIVE SortByGeneratedAt(_)
SortByGeneratedAt(records) ==
    IF records = <<>>
    THEN <<>>
    ELSE InsertByGeneratedAt(SortByGeneratedAt(SubSeq(records, 1, Len(records) - 1)),
                             records[Len(records)])

\* the scans recorded in a list of sessions (sum of record.scannedBy.length)
RECURSIVE ScanCount(_)
ScanCount(records) ==
    IF records = <<>> THEN 0
    ELSE Len(Head(records).scannedBy) + ScanCount(Tail(records))

\* handleViewAttendance up to the fetch
handleViewAttendance(k) ==
    /\ mounted[k]
    /\ viewPc[k] = "idle"
    /\ ~showAttendanceModal[k]
    /\ newScans' = [newScans EXCEPT ![k] = 0]
    /\ viewPc' = [viewPc EXCEPT ![k] = "fetching"]
    /\ viewed' = [viewed EXCEPT ![k] = ScanCount(ListSessionsForCourse(CardCourse(k)))]
    /\ UNCHANGED <<clockVars, serverVars, studentVars, genVars, lastCheckTime, polls,
                   mounted, nextTick, remainingTime, attendanceRecords,
                   showAttendanceModal>>
    /\ Forget

\* handleViewAttendance from the response of the fetch on; fetchOk is FALSE
\* for a network error or a non-OK answer
ViewAttendanceResponse(k, fetchOk) ==
    /\ viewPc[k] = "fetching"
    /\ viewPc' = [viewPc EXCEPT ![k] = "idle"]
    /\ IF fetchOk
       THEN /\ attendanceRecords' = [attendanceRecords EXCEPT ![k] =
                    SortByGeneratedAt(ListSessionsForCourse(CardCourse(k)))]
            /\ showAttendanceModal' = [showAttendanceModal EXCEPT ![k] = TRUE]
            /\ UNCHANGED alert
       ELSE /\ alert' = [alert EXCEPT ![k] = FetchFailed]
            /\ UNCHANGED <<attendanceRecords, showAttendanceModal>>
    /\ UNCHANGED <<clockVars, serverVars, studentVars, pollVars, remainingTime,
                   showQRModal, showConfirmModal, qrData, isLoading, cardPc, genLog,
                   raced, viewed>>
    /\ Forget

\* the close button and onRequestClose of the attendance modal
CloseAttendanceModal(k) ==
    /\ showAttendanceModal[k]
    /\ showAttendanceModal' = [showAttendanceModal EXCEPT ![k] = FALSE]
    /\ UNCHANGED <<clockVars, serverVars, studentVars, genVars, pollVars,
                   remainingTime, attendanceRecords, viewPc, viewed>>
    /\ Forget

ViewStep(k) ==
    \/ handleViewAttendance(k)
    \/ \E fetchOk \in BOOLEAN : ViewAttendanceResponse(k, fetchOk)
    \/ CloseAttendanceModal(k)

\* ------------------------------------------------------------------------
\* Backend: directory and ledger
\* ------------------------------------------------------------------------
\* GET courses: every course with its roster
GetCourse(c) == [_id |-> c, courseCode |-> CourseCode(c), students |-> enrollment[c]]

\* the session a scanned text belongs to (0: none)
FindSession(data) ==
    LET hits == {i \in 1..Len(sessions) : sessions[i].qrCodeData = data}
    IN  IF hits = {} THEN 0 ELSE CHOOSE i \in hits : \A j \in hits : i <= j

HasScanned(row, student) ==
    \E j \in 1..Len(row.scannedBy) : row.scannedBy[j].studentId = student

\* AppendScan(sessionId, studentId, scannedAt) -> Ok | Conflict, check-and-insert
AppendScan(i, student, t) ==
    IF HasScanned(sessions[i], student)
    THEN [answer |-> "Conflict", store |-> sessions]
    ELSE [answer |-> "Ok",
          store |-> [sessions EXCEPT ![i].scannedBy =
                        Append(@, [studentId |-> student, scannedAt |-> t])]]

\* the course update of the admin screens: one student joins or leaves a roster
updateCourse(c, s) ==
    /\ enrollment' = [enrollment EXCEPT ![c] =
                         IF s \in @ THEN @ \ {s} ELSE @ \cup {s}]
    /\ UNCHANGED <<clockVars, sessions, cardVars, studentVars>>
    /\ Forget

\* ------------------------------------------------------------------------
\* StudentDashboard
\* ------------------------------------------------------------------------
Message(kind) == [kind |-> kind, a |-> "", b |-> ""]
Pass == Message("pass")

OrElse(str, fallback) == IF str = "" THEN fallback ELSE str

\* courses.some(course => course._id === id && course.students &&
\*                        course.students.includes(currentUserId))
IsEnrolled(list, id, user) ==
    \E course \in list : course._id = id /\ user \in course.students

\* a check that also refuses the token at the instant of its expiry
IsExpired_Inclusive(data, t) ==
    /\ GetTime(data, "expiresAt") # Undefined
    /\ t >= DateParse(GetTime(data, "expiresAt"))

\* if (qrDataObj.expiresAt) { ... currentTime > expiryTime ... }
IsExpired(data, t) ==
    /\ GetTime(data, "expiresAt") # Undefined
    /\ t > DateParse(GetTime(data, "expiresAt"))

\* the checks with the enrollment check moved in front of the course match
ValidateScan_EnrollmentFirst(data, course, list, user, t) ==
    IF ~JsonParses(data)
    THEN Message("InvalidFormat")
    ELSE IF course = NullCourse
    THEN Message("NoCourse")
    ELSE IF data.tag = "null"
    THEN Message("TypeError")
    ELSE IF ~IsEnrolled(list, GetStr(data, "courseId"), user)
    THEN [kind |-> "NotEnrolled",
          a |-> OrElse(GetStr(data, "courseCode"), "this course"),
          b |-> ""]
    ELSE IF GetStr(data, "courseId") # course._id
    THEN [kind |-> "WrongCourse",
          a |-> OrElse(GetStr(data, "courseCode"), "another course"),
          b |-> course.courseCode]
    ELSE IF IsExpired(data, t)
    THEN Message("Expired")
    ELSE Pass

\* the checks of handleBarCodeScanned in front of the POST: the error that is
\* thrown, or Pass
ValidateScan(data, course, list, user, t) ==
    IF ~JsonParses(data)
    THEN Message("InvalidFormat")
    ELSE IF course = NullCourse
    THEN Message("NoCourse")
    ELSE IF data.tag = "null"
    THEN Message("TypeError")
    ELSE IF GetStr(data, "courseId") # course._id
    THEN [kind |-> "WrongCourse",
          a |-> OrElse(GetStr(data, "courseCode"), "another course"),
          b |-> course.courseCode]
    ELSE IF ~IsEnrolled(list, GetStr(data, "courseId"), user)
    THEN [kind |-> "NotEnrolled",
          a |-> OrElse(GetStr(data, "courseCode"), "this course"),
          b |-> ""]
    ELSE IF IsExpired(data, t)
    THEN Message("Expired")
    ELSE Pass

\* Camera.requestCameraPermissionsAsync has answered
checkPermissions(d, granted) ==
    /\ hasPermission[d] = "null"
    /\ hasPermission' = [hasPermission EXCEPT ![d] = IF granted THEN "true" ELSE "false"]
    /\ UNCHANGED <<clockVars, serverVars, cardVars, currentUserId, reopened, courses,
                   isScannerVisible, scanned, currentScanningCourse,
                   showSuccessModal, showErrorModal, errorMessage, handlers,
                   timers>>
    /\ Forget

\* fetchEnrolledCourses (on mount and on pull-to-refresh)
fetchEnrolledCourses(d, fetchOk) ==
    /\ courses' = [courses EXCEPT ![d] =
                      IF fetchOk
                      THEN {GetCourse(c) : c \in {x \in Courses :
                                                    currentUserId[d] \in enrollment[x]}}
                      ELSE @]
    /\ UNCHANGED <<clockVars, serverVars, cardVars, currentUserId, reopened, hasPermission,
                   isScannerVisible, scanned, currentScanningCourse,
                   showSuccessModal, showErrorModal, errorMessage, handlers,
                   timers>>
    /\ Forget

handleScanPress(d, course) ==
    /\ course \in courses[d]
    /\ ~isScannerVisible[d]
    /\ hasPermission[d] = "true"
    /\ currentScanningCourse' = [currentScanningCourse EXCEPT ![d] = course]
    /\ isScannerVisible' = [isScannerVisible EXCEPT ![d] = TRUE]
    /\ reopened' = [reopened EXCEPT ![d] = /\ timers[d] > 0
                                           /\ ~showSuccessModal[d]
                                           /\ ~showErrorModal[d]]
    /\ UNCHANGED <<clockVars, serverVars, cardVars, currentUserId, courses,
                   hasPermission, scanned, showSuccessModal, showErrorModal,
                   errorMessage, handlers, timers>>
    /\ Forget

\* the back button of the scanner and onRequestClose of its modal
CloseScanner(d) ==
    /\ isScannerVisible[d]
    /\ isScannerVisible' = [isScannerVisible EXCEPT ![d] = FALSE]
    /\ scanned' = [scanned EXCEPT ![d] = FALSE]
    /\ UNCHANGED <<clockVars, serverVars, cardVars, currentUserId, reopened, courses,
                   hasPermission, currentScanningCourse, showSuccessModal,
                   showErrorModal, errorMessage, handlers, timers>>
    /\ Forget

\* the Scan Again button
ScanAgain(d) ==
    /\ isScannerVisible[d]
    /\ scanned[d]
    /\ scanned' = [scanned EXCEPT ![d] = FALSE]
    /\ UNCHANGED <<clockVars, serverVars, cardVars, currentUserId, reopened, courses,
                   hasPermission, isScannerVisible, currentScanningCourse,
                   showSuccessModal, showErrorModal, errorMessage, handlers,
                   timers>>
    /\ Forget

\* the Try Again button and onRequestClose of the error modal
CloseErrorModal(d) ==
    /\ showErrorModal[d]
    /\ showErrorModal' = [showErrorModal EXCEPT ![d] = FALSE]
    /\ UNCHANGED <<clockVars, serverVars, cardVars, currentUserId, reopened, courses,
                   hasPermission, isScannerVisible, scanned, currentScanningCourse,
                   showSuccessModal, errorMessage, handlers, timers>>
    /\ Forget

FreeSlots(d) == {i \in Slots : handlers[d][i].pc = "idle"}

\* texts a camera can be shown: crafted ones and every QR code of the backend
ForgedToken(c) ==
    JsonStringify([courseId |-> c, courseCode |-> CourseCode(c),
                   courseName |-> CourseName(c),
                   generatedAt |-> toISOString(0),
                   expiresAt |-> toISOString(OneHour)])
WithoutExpiry(text) ==
    [text EXCEPT !.members = SelectSeq(@, LAMBDA m : m.k # "expiresAt")]
ScanTexts ==
    {NotJson, [tag |-> "null", members |-> <<>>], [tag |-> "number", members |-> <<>>],
     WithoutExpiry(ForgedToken("cA"))}
        \cup {ForgedToken(c) : c \in Courses}
        \cup {sessions[i].qrCodeData : i \in 1..Len(sessions)}

\* CameraView onBarcodeScanned={scanned ? undefined : handleBarCodeScanned}:
\* handleBarCodeScanned up to `await playBeep()`
handleBarCodeScanned(d, data, slot) ==
    /\ isScannerVisible[d]
    /\ ~scanned[d]
    /\ slot \in FreeSlots(d)
    /\ scanned' = [scanned EXCEPT ![d] = TRUE]
    /\ handlers' = [handlers EXCEPT ![d][slot] =
                       [pc |-> "beep", data |-> data,
                        course |-> currentScanningCourse[d],
                        courses |-> courses[d], rec |-> NoScan]]
    /\ UNCHANGED <<clockVars, serverVars, cardVars, currentUserId, reopened, courses,
                   hasPermission, isScannerVisible, currentScanningCourse,
                   showSuccessModal, showErrorModal, errorMessage, timers>>
    /\ Forget

\* the TypeError that fetch throws when the request or its answer is lost
NetworkRequestFailed == Message("Network request failed")

\* error.message === 'Network request failed' ? 'Unable to connect ...'
\*     : error.message || 'Failed to record attendance'
DisplayedMessage(error) ==
    IF error = NetworkRequestFailed
    THEN Message("Network")
    ELSE [error EXCEPT !.kind = OrElse(@, "Failed")]

\* a catch block that does not open the error modal
ScanFailed_NoModal(d, slot, error, record) ==
    /\ errorMessage' = [errorMessage EXCEPT ![d] = DisplayedMessage(error)]
    /\ UNCHANGED showErrorModal
    /\ scanned' = [scanned EXCEPT ![d] = FALSE]
    /\ handlers' = [handlers EXCEPT ![d][slot] = NoHandler]
    /\ lastScan' = [NoScans EXCEPT ![d] = record]
    /\ lastPoll' = NoPolls

\* a catch block that leaves the scanned flag up
ScanFailed_StaysScanned(d, slot, error, record) ==
    /\ errorMessage' = [errorMessage EXCEPT ![d] = DisplayedMessage(error)]
    /\ showErrorModal' = [showErrorModal EXCEPT ![d] = TRUE]
    /\ UNCHANGED scanned
    /\ handlers' = [handlers EXCEPT ![d][slot] = NoHandler]
    /\ lastScan' = [NoScans EXCEPT ![d] = record]
    /\ lastPoll' = NoPolls

\* the catch block of handleBarCodeScanned
ScanFailed(d, slot, error, record) ==
    /\ errorMessage' = [errorMessage EXCEPT ![d] = DisplayedMessage(error)]
    /\ showErrorModal' = [showErrorModal EXCEPT ![d] = TRUE]
    /\ scanned' = [scanned EXCEPT ![d] = FALSE]
    /\ handlers' = [handlers EXCEPT ![d][slot] = NoHandler]
    /\ lastScan' = [NoScans EXCEPT ![d] = record]
    /\ lastPoll' = NoPolls

ScanRecordOf(d, h, t) ==
    [data |-> h.data, course |-> h.course._id, at |-> t,
     listed |-> IsEnrolled(h.courses, GetStr(h.data, "courseId"), currentUserId[d]),
     enrolled |-> /\ h.course # NullCourse
                  /\ currentUserId[d] \in enrollment[h.course._id],
     duplicate |-> /\ FindSession(h.data) # 0
                   /\ HasScanned(sessions[FindSession(h.data)], currentUserId[d]),
     posted |-> FALSE, outcome |-> "none"]

\* handleBarCodeScanned from JSON.parse to the POST of attendance/scan
ValidateAndPost(d, slot) ==
    LET h == handlers[d][slot]
        result == ValidateScan(h.data, h.course, h.courses, currentUserId[d], now)
        record == ScanRecordOf(d, h, now)
    IN  /\ h.pc = "beep"
        /\ IF result = Pass
           THEN /\ handlers' = [handlers EXCEPT ![d][slot] =
                                  [h EXCEPT !.pc = "posted",
                                            !.rec = [record EXCEPT !.posted = TRUE]]]
                /\ UNCHANGED <<errorMessage, showErrorModal, scanned>>
                /\ Forget
           ELSE ScanFailed(d, slot, result, [record EXCEPT !.outcome = result.kind])
        /\ UNCHANGED <<clockVars, serverVars, cardVars, currentUserId, reopened, courses,
                       hasPermission, isScannerVisible, currentScanningCourse,
                       showSuccessModal, timers>>

\* POST attendance/scan as the backend answers it: an unknown QR text is
\* refused, a known one goes to the ledger
ScanEndpoint(data, student, t) ==
    LET i == FindSession(data)
    IN  IF i = 0
        THEN [ok |-> FALSE, message |-> "", store |-> sessions]
        ELSE LET r == AppendScan(i, student, t)
             IN  [ok |-> r.answer = "Ok",
                  message |-> IF r.answer = "Ok" THEN "" ELSE "AlreadyScanned",
                  store |-> r.store]

\* a handler that does not look at response.ok
ResponseError_IgnoreStatus(reply) == Pass

\* if (!response.ok) throw new Error(result.message || 'Failed to record attendance')
ResponseError(reply) ==
    IF reply.ok THEN Pass ELSE Message(OrElse(reply.message, "Failed"))

\* what the network does with the POST: the answer arrives, the request
\* never reaches the backend, or the backend handles it and the answer is lost
Network == {"answered", "unsent", "lost"}

\* handleBarCodeScanned from the response of the POST on.  fetch throws
\* 'Network request failed' unless net is "answered"; the backend has handled
\* the request unless net is "unsent".
ScanResponse(d, slot, net) ==
    LET h == handlers[d][slot]
        reply == ScanEndpoint(h.data, currentUserId[d], now)
        error == ResponseError(reply)
        record == [h.rec EXCEPT !.duplicate =
                      /\ FindSession(h.data) # 0
                      /\ HasScanned(sessions[FindSession(h.data)], currentUserId[d])]
    IN  /\ h.pc = "posted"
        /\ IF net # "answered"
           THEN /\ ScanFailed(d, slot, NetworkRequestFailed,
                              [record EXCEPT !.outcome = "Network"])
                /\ sessions' = IF net = "lost" THEN reply.store ELSE sessions
                /\ UNCHANGED <<showSuccessModal, timers>>
           ELSE IF error = Pass
           THEN /\ sessions' = reply.store
                /\ showSuccessModal' = [showSuccessModal EXCEPT ![d] = TRUE]
                /\ timers' = [timers EXCEPT ![d] = @ + 1]
                /\ handlers' = [handlers EXCEPT ![d][slot] = NoHandler]
                /\ lastScan' = [NoScans EXCEPT ![d] = [record EXCEPT !.outcome = "Success"]]
                /\ lastPoll' = NoPolls
                /\ UNCHANGED <<errorMessage, showErrorModal, scanned>>
           ELSE /\ sessions' = reply.store
                /\ ScanFailed(d, slot, error, [record EXCEPT !.outcome = error.kind])
                /\ UNCHANGED <<showSuccessModal, timers>>
        /\ UNCHANGED <<clockVars, enrollment, cardVars, currentUserId, reopened, courses,
                       hasPermission, isScannerVisible, currentScanningCourse>>

\* the setTimeout callback started on success
SuccessTimer(d) ==
    /\ timers[d] > 0
    /\ timers' = [timers EXCEPT ![d] = @ - 1]
    /\ showSuccessModal' = [showSuccessModal EXCEPT ![d] = FALSE]
    /\ isScannerVisible' = [isScannerVisible EXCEPT ![d] = FALSE]
    /\ scanned' = [scanned EXCEPT ![d] = FALSE]
    /\ currentScanningCourse' = [currentScanningCourse EXCEPT ![d] = NullCourse]
    /\ reopened' = [reopened EXCEPT ![d] = FALSE]
    /\ UNCHANGED <<clockVars, serverVars, cardVars, currentUserId, courses,
                   hasPermission, showErrorModal, errorMessage, handlers>>
    /\ Forget

\* onRequestClose of the success modal
CloseSuccessModal(d) ==
    /\ showSuccessModal[d]
    /\ showSuccessModal' = [showSuccessModal EXCEPT ![d] = FALSE]
    /\ UNCHANGED <<clockVars, serverVars, cardVars, currentUserId, reopened, courses,
                   hasPermission, isScannerVisible, scanned, currentScanningCourse,
                   showErrorModal, errorMessage, handlers, timers>>
    /\ Forget

StudentStep(d) ==
    \/ \E granted \in BOOLEAN : checkPermissions(d, granted)
    \/ \E fetchOk \in BOOLEAN : fetchEnrolledCourses(d, fetchOk)
    \/ \E course \in courses[d] : handleScanPress(d, course)
    \/ CloseScanner(d)
    \/ ScanAgain(d)
    \/ CloseErrorModal(d)
    \/ CloseSuccessModal(d)
    \/ \E data \in ScanTexts : handleBarCodeScanned(d, data, 1)
    \/ \E slot \in Slots : ValidateAndPost(d, slot)
    \/ \E slot \in Slots, net \in Network : ScanResponse(d, slot, net)
    \/ SuccessTimer(d)

\* ------------------------------------------------------------------------
\* Specifications
\* ------------------------------------------------------------------------
Init ==
    /\ now = 0
    /\ ticks = 0
    /\ sessions = <<>>
    /\ enrollment = [c \in Courses |-> IF c = "cA" THEN {"s1", "s2"} ELSE {"s2"}]
    /\ showQRModal = [k \in Cards |-> FALSE]
    /\ showConfirmModal = [k \in Cards |-> FALSE]
    /\ qrData = [k \in Cards |-> NullQR]
    /\ isLoading = [k \in Cards |-> FALSE]
    /\ cardPc = [k \in Cards |-> "idle"]
    /\ genLog = [k \in Cards |-> NoGen]
    /\ raced = FALSE
    /\ alert = [k \in Cards |-> ""]
    /\ newScans = [k \in Cards |-> 0]
    /\ lastCheckTime = [k \in Cards |-> 0]
    /\ polls = [k \in Cards |-> {}]
    /\ mounted = [k \in Cards |-> TRUE]
    /\ nextTick = [k \in Cards |-> PollInterval]
    /\ remainingTime = [k \in Cards |-> NoRemainingTime]
    /\ attendanceRecords = [k \in Cards |-> <<>>]
    /\ showAttendanceModal = [k \in Cards |-> FALSE]
    /\ viewPc = [k \in Cards |-> "idle"]
    /\ viewed = [k \in Cards |-> -1]
    /\ lastPoll = NoPolls
    /\ currentUserId = [d \in Devices |-> "s1"]
    /\ courses = [d \in Devices |-> {}]
    /\ hasPermission = [d \in Devices |-> "null"]
    /\ isScannerVisible = [d \in Devices |-> FALSE]
    /\ scanned = [d \in Devices |-> FALSE]
    /\ currentScanningCourse = [d \in Devices |-> NullCourse]
    /\ showSuccessModal = [d \in Devices |-> FALSE]
    /\ showErrorModal = [d \in Devices |-> FALSE]
    /\ errorMessage = [d \in Devices |-> NoMessage]
    /\ handlers = [d \in Devices |-> [i \in Slots |-> NoHandler]]
    /\ timers = [d \in Devices |-> 0]
    /\ reopened = [d \in Devices |-> FALSE]
    /\ lastScan = [d \in Devices |-> NoScan]

\* two lecturer devices generating for one course, no student active
NextGen ==
    \/ Tick
    \/ \E k \in Cards : CardStep(k)

SpecGen == Init /\ [][NextGen]_vars

\* The state reached from Init when card k1 has generated a QR code at time 0
\* (handleGenerateQR, checkExistingQRCode, handleConfirmGenerateQR and
\* CardGenerateQRData in a row) and shows it.
FirstSession == CreateSession(CardCourse("k1"), 0)

InitScan ==
    /\ now = 0
    /\ ticks = 0
    /\ sessions = <<FirstSession>>
    /\ enrollment = [c \in Courses |-> IF c = "cA" THEN {"s1", "s2"} ELSE {"s2"}]
    /\ showQRModal = [k \in Cards |-> k = "k1"]
    /\ showConfirmModal = [k \in Cards |-> FALSE]
    /\ qrData = [k \in Cards |->
                    IF k = "k1"
                    THEN [data |-> FirstSession.qrCodeData,
                          expiresAt |-> FirstSession.expiresAt]
                    ELSE NullQR]
    /\ isLoading = [k \in Cards |-> FALSE]
    /\ cardPc = [k \in Cards |-> "idle"]
    /\ genLog = [k \in Cards |->
                    IF k = "k1"
                    THEN [phase |-> "done", token |-> FirstSession.qrCodeData]
                    ELSE NoGen]
    /\ raced = FALSE
    /\ alert = [k \in Cards |-> ""]
    /\ newScans = [k \in Cards |-> 0]
    /\ lastCheckTime = [k \in Cards |-> 0]
    /\ polls = [k \in Cards |-> {}]
    /\ mounted = [k \in Cards |-> TRUE]
    /\ nextTick = [k \in Cards |-> PollInterval]
    /\ remainingTime = [k \in Cards |-> NoRemainingTime]
    /\ attendanceRecords = [k \in Cards |-> <<>>]
    /\ showAttendanceModal = [k \in Cards |-> FALSE]
    /\ viewPc = [k \in Cards |-> "idle"]
    /\ viewed = [k \in Cards |-> -1]
    /\ lastPoll = NoPolls
    /\ currentUserId = [d \in Devices |-> "s1"]
    /\ courses = [d \in Devices |-> {}]
    /\ hasPermission = [d \in Devices |-> "null"]
    /\ isScannerVisible = [d \in Devices |-> FALSE]
    /\ scanned = [d \in Devices |-> FALSE]
    /\ currentScanningCourse = [d \in Devices |-> NullCourse]
    /\ showSuccessModal = [d \in Devices |-> FALSE]
    /\ showErrorModal = [d \in Devices |-> FALSE]
    /\ errorMessage = [d \in Devices |-> NoMessage]
    /\ handlers = [d \in Devices |-> [i \in Slots |-> NoHandler]]
    /\ timers = [d \in Devices |-> 0]
    /\ reopened = [d \in Devices |-> FALSE]
    /\ lastScan = [d \in Devices |-> NoScan]

\* one student device scanning while the clock runs and the roster changes
NextScan ==
    \/ Tick
    \/ updateCourse("cA", "s1")
    \/ StudentStep("d1")

SpecScan == InitScan /\ [][NextScan]_vars

\* two devices of one student scanning the QR code that card k1 shows
SessionTexts == {sessions[i].qrCodeData : i \in 1..Len(sessions)}

LedgerStep(d) ==
    \/ checkPermissions(d, TRUE)
    \/ fetchEnrolledCourses(d, TRUE)
    \/ \E course \in courses[d] : handleScanPress(d, course)
    \/ CloseScanner(d)
    \/ ScanAgain(d)
    \/ CloseErrorModal(d)
    \/ \E data \in SessionTexts : handleBarCodeScanned(d, data, 1)
    \/ \E slot \in Slots : ValidateAndPost(d, slot)
    \/ \E slot \in Slots, net \in Network : ScanResponse(d, slot, net)
    \/ SuccessTimer(d)

NextLedger ==
    \/ \E d \in Devices : LedgerStep(d)

SpecLedger == InitScan /\ [][NextLedger]_vars

\* one device on which a barcode event is taken whenever the scanned flag
\* is down, also while earlier calls of handleBarCodeScanned still run
ReentryStep(d) ==
    \/ checkPermissions(d, TRUE)
    \/ fetchEnrolledCourses(d, TRUE)
    \/ \E course \in courses[d] : handleScanPress(d, course)
    \/ CloseScanner(d)
    \/ ScanAgain(d)
    \/ CloseErrorModal(d)
    \/ \E data \in SessionTexts, slot \in Slots : handleBarCodeScanned(d, data, slot)
    \/ \E slot \in Slots : ValidateAndPost(d, slot)
    \/ \E slot \in Slots, net \in Network : ScanResponse(d, slot, net)
    \/ SuccessTimer(d)

NextReentry ==
    \/ ReentryStep("d1")

SpecReentry == InitScan /\ [][NextReentry]_vars

\* the student d1 scanning, dismissing the success modal and opening the
\* scanner again
NextSession ==
    \/ ReentryStep("d1")
    \/ CloseSuccessModal("d1")

SpecSession == InitScan /\ [][NextSession]_vars

\* the card k1 polling while a student scans the QR code it shows
PollSteps == {PollInterval, OneHour}

NextPoll ==
    \/ \E d \in PollSteps : TickBy(d)
    \/ PollStep("k1")
    \/ LedgerStep("d1")

SpecPoll == InitScan /\ [][NextPoll]_vars

\* the card k1 polling and showing the attendance while the student d1 scans
NextBadge ==
    \/ TickBy(PollInterval)
    \/ PollStep("k1")
    \/ ViewStep("k1")
    \/ LedgerStep("d1")

SpecBadge == InitScan /\ [][NextBadge]_vars

\* the card k1 showing a QR code while its countdown runs
CountdownSteps == {OneSecond, OneHour - OneSecond, OneHour + OneSecond}

NextCountdown ==
    \/ \E d \in CountdownSteps : TickBy(d)
    \/ CountdownTick("k1")
    \/ CardStep("k1")

SpecCountdown == InitScan /\ [][NextCountdown]_vars

\* the card k1 generating QR codes and showing the attendance
NextView ==
    \/ Tick
    \/ CardStep("k1")
    \/ ViewStep("k1")

SpecView == Init /\ [][NextView]_vars

\* the card k1 polling while it leaves and enters the screen
NextTimer ==
    \/ \E d \in PollSteps : TickBy(d)
    \/ PollStep("k1")
    \/ MountStep("k1")

SpecTimer == InitScan /\ [][NextTimer]_vars

Next ==
    \/ Tick
    \/ \E k \in Cards : CardStep(k)
    \/ \E k \in Cards : PollStep(k)
    \/ \E k \in Cards : MountStep(k)
    \/ \E k \in Cards : ViewStep(k)
    \/ \E k \in Cards : CountdownTick(k)
    \/ \E c \in Courses, s \in Students : updateCourse(c, s)
    \/ \E d \in Devices : StudentStep(d)

Spec == Init /\ [][Next]_vars

TypeOK ==
    /\ now \in Nat
    /\ ticks \in 0..MaxTicks
    /\ Len(sessions) <= MaxSessions
    /\ \A d \in Devices : timers[d] \in Nat

\* ------------------------------------------------------------------------
\* Properties
\* ------------------------------------------------------------------------
\* the token payload of the wire format, under the field names of the code
WellFormed(data) ==
    \A key \in {"courseId", "courseCode", "courseName", "generatedAt", "expiresAt"} :
        HasKey(data, key)

\* the rows of the session store that hold one of the given QR texts
RowsOf(tokens) == {i \in 1..Len(sessions) : sessions[i].qrCodeData \in tokens}

\* the real instant at which the backend minted a row
MintedAt(row) == DateParse(row.generatedAt) - PhilippineOffset

\* C1: for every course at most one unexpired token exists at any instant.
C1_SingleLiveToken ==
    \A c \in Courses : Cardinality(LiveSessions(c, now)) <= 1

\* C2: when the lookups of two generate requests both ended before either
\* mint request was sent and found no valid token, exactly one token is
\* persisted and both requests end with that same token.
C2_ConcurrentGeneration ==
    (raced /\ \A k \in Cards : genLog[k].phase = "done")
        => /\ Cardinality(RowsOf({genLog[k].token : k \in Cards})) = 1
           /\ \A k1, k2 \in Cards : genLog[k1].token = genLog[k2].token

\* C3: a session holds at most one scan record per student, and an append
\* for a pair that is already recorded ends in the error modal with the
\* already-scanned message, never in a second record or a success.
C3_NoDuplicateScans ==
    /\ \A i \in 1..Len(sessions) :
          \A a, b \in 1..Len(sessions[i].scannedBy) :
              sessions[i].scannedBy[a].studentId = sessions[i].scannedBy[b].studentId
                  => a = b
    /\ \A d \in Devices :
          (/\ lastScan[d].posted
           /\ lastScan[d].duplicate
           /\ lastScan[d].outcome # "Network")
              => /\ lastScan[d].outcome = "AlreadyScanned"
                 /\ showErrorModal[d]
                 /\ errorMessage[d].kind = "AlreadyScanned"

C3_Witness ==
    \E d \in Devices :
        /\ lastScan[d].outcome = "AlreadyScanned"
        /\ lastScan[d].duplicate
        /\ \E i \in 1..Len(sessions) : Len(sessions[i].scannedBy) = 1

\* the scan attempt passed the decode, course-match and enrollment checks
PassedEarlierChecks(r) ==
    /\ r.outcome # "none"
    /\ WellFormed(r.data)
    /\ GetStr(r.data, "courseId") = r.course
    /\ r.listed

\* C4: a token that passes the decode, course-match and enrollment checks is
\* rejected as expired exactly when the instant of the check is later than
\* its expiresAt.
C4_ExpiryMonotonicity ==
    \A d \in Devices :
        PassedEarlierChecks(lastScan[d])
            => ((lastScan[d].at > DateParse(GetTime(lastScan[d].data, "expiresAt")))
                    <=> lastScan[d].outcome = "Expired")

C4_Witness ==
    \E d \in Devices :
        /\ PassedEarlierChecks(lastScan[d])
        /\ lastScan[d].at > DateParse(GetTime(lastScan[d].data, "expiresAt"))
        /\ lastScan[d].outcome = "Expired"
        /\ errorMessage[d].kind = "Expired"

\* C5: a token minted at the real instant t is rejected as expired by the
\* student-side checks at every real instant later than t + 1 hour: no such
\* scan reaches the POST, and its outcome is the expired rejection.
C5_OneHourWindow ==
    \A d \in Devices :
        /\ \A slot \in Slots, i \in 1..Len(sessions) :
              (/\ handlers[d][slot].pc = "posted"
               /\ handlers[d][slot].data = sessions[i].qrCodeData)
                  => handlers[d][slot].rec.at <= MintedAt(sessions[i]) + OneHour
        /\ \A i \in 1..Len(sessions) :
              (/\ PassedEarlierChecks(lastScan[d])
               /\ lastScan[d].data = sessions[i].qrCodeData
               /\ lastScan[d].at > MintedAt(sessions[i]) + OneHour)
                  => lastScan[d].outcome = "Expired"

\* C6: a token for course A scanned while the intended course is B # A is
\* rejected with the wrong-course reason, whatever its expiry state and
\* whatever the enrollment of the student.
C6_CourseBinding ==
    \A d \in Devices :
        (/\ lastScan[d].outcome # "none"
         /\ HasKey(lastScan[d].data, "courseId")
         /\ lastScan[d].course # ""
         /\ GetStr(lastScan[d].data, "courseId") # lastScan[d].course)
            => /\ lastScan[d].outcome = "WrongCourse"
               /\ ~lastScan[d].posted
               /\ showErrorModal[d]
               /\ errorMessage[d].kind = "WrongCourse"

C6_Witness ==
    \E d \in Devices :
        /\ lastScan[d].outcome = "WrongCourse"
        /\ HasKey(lastScan[d].data, "courseId")
        /\ GetStr(lastScan[d].data, "courseId") # lastScan[d].course
        /\ lastScan[d].at > DateParse(GetTime(lastScan[d].data, "expiresAt"))
        /\ ~lastScan[d].enrolled
        /\ ~lastScan[d].listed

\* the token is well formed, unexpired and for the intended course
ValidForCourse(r) ==
    /\ WellFormed(r.data)
    /\ GetStr(r.data, "courseId") = r.course
    /\ r.at <= DateParse(GetTime(r.data, "expiresAt"))

\* C7: a well-formed, unexpired, course-matching token is rejected with the
\* not-enrolled reason whenever the student is absent from the roster of the
\* course at the time of the scan: such a scan is never posted.
C7_EnrollmentGate ==
    \A d \in Devices :
        /\ \A slot \in Slots :
              (/\ handlers[d][slot].pc = "posted"
               /\ ValidForCourse(handlers[d][slot].rec))
                  => handlers[d][slot].rec.enrolled
        /\ (/\ lastScan[d].outcome # "none"
            /\ ValidForCourse(lastScan[d])
            /\ ~lastScan[d].enrolled)
               => lastScan[d].outcome = "NotEnrolled"

\* the reason of the first failing check in the order decode, course match,
\* enrollment, expiry, duplicate
FirstFailure(r) ==
    IF ~WellFormed(r.data) THEN "InvalidFormat"
    ELSE IF GetStr(r.data, "courseId") # r.course THEN "WrongCourse"
    ELSE IF ~r.listed THEN "NotEnrolled"
    ELSE IF r.at > DateParse(GetTime(r.data, "expiresAt")) THEN "Expired"
    ELSE IF r.duplicate THEN "AlreadyScanned"
    ELSE "Success"

\* C8: the outcome reported for a scan is the reason of the first failing
\* check in the order decode, course match, enrollment, expiry, duplicate.
C8_OrderedGates ==
    \A d \in Devices :
        lastScan[d].outcome \notin {"none", "Network", "Failed"}
            => lastScan[d].outcome = FirstFailure(lastScan[d])

\* C9: every scanned text that is not the structured token payload is
\* rejected with the invalid-format reason.
C9_MalformedPayload ==
    \A d \in Devices :
        /\ \A slot \in Slots :
              handlers[d][slot].pc = "posted" => WellFormed(handlers[d][slot].data)
        /\ (lastScan[d].outcome # "none" /\ ~WellFormed(lastScan[d].data))
               => /\ lastScan[d].outcome = "InvalidFormat"
                  /\ errorMessage[d].kind = "InvalidFormat"

\* C10: the append request is sent only for a scan that passed the four
\* client checks, and only such a scan is recorded.
PassedClientChecks(r) ==
    /\ WellFormed(r.data)
    /\ GetStr(r.data, "courseId") = r.course
    /\ r.listed
    /\ r.at <= DateParse(GetTime(r.data, "expiresAt"))

C10_LedgerAfterValidation ==
    \A d \in Devices :
        /\ \A slot \in Slots :
              handlers[d][slot].pc = "posted"
                  => PassedClientChecks(handlers[d][slot].rec)
        /\ lastScan[d].posted => PassedClientChecks(lastScan[d])

\* ------------------------------------------------------------------------
\* C11: on every device at most one call of handleBarCodeScanned is in
\* flight at any time, whatever the order of barcode events, Scan Again,
\* closing the scanner and opening it again.
\* ------------------------------------------------------------------------
InFlight(d) == {slot \in Slots : handlers[d][slot].pc # "idle"}

C11_ScanSerialization ==
    \A d \in Devices : Cardinality(InFlight(d)) <= 1

\* ------------------------------------------------------------------------
\* C12: at every instant and for every token, the lookup of a live token on
\* the card, the countdown of the card and the expiry check of the student
\* give the same answer to "is this token still valid".
\* ------------------------------------------------------------------------
C12_ExpiryAgreement ==
    \A i \in 1..Len(sessions) :
        LET r == sessions[i]
        IN  /\ IsLive(r, now) = ~IsExpired(r.qrCodeData, now)
            /\ IsLive(r, now) = ~CountdownExpired(r.expiresAt, now)

\* ------------------------------------------------------------------------
\* C13: when the lookup of handleGenerateQR is answered with a session list
\* that holds a live token, the card shows that token (qrData set to it, QR
\* modal open), does not open the confirmation modal and sends no mint
\* request; a mint request is only ever sent after a lookup that found none.
\* ------------------------------------------------------------------------
LiveTexts(c, t) == {sessions[i].qrCodeData : i \in LiveSessions(c, t)}

C13_LiveTokenReused ==
    [][\A k \in Cards :
        /\ (/\ cardPc[k] = "lookup"
            /\ cardPc'[k] # "lookup"
            /\ genLog'[k].phase # "lookupFailed"
            /\ LiveSessions(CardCourse(k), now) # {})
           => /\ qrData'[k].data \in LiveTexts(CardCourse(k), now)
              /\ qrData'[k].expiresAt = GetTime(qrData'[k].data, "expiresAt")
              /\ showQRModal'[k]
              /\ ~showConfirmModal'[k]
              /\ cardPc'[k] = "idle"
              /\ sessions' = sessions
        /\ (cardPc[k] # "minting" /\ cardPc'[k] = "minting")
           => genLog[k].phase \in {"looked", "lookupFailed"}
    ]_vars

C13_Witness ==
    \E k \in Cards :
        /\ genLog[k].phase = "existing"
        /\ qrData[k].data = genLog[k].token
        /\ showQRModal[k]
        /\ ~showConfirmModal[k]
        /\ cardPc[k] = "idle"

\* ------------------------------------------------------------------------
\* C14: every minted token carries the institutional time of its mint as
\* issue time and an expiry exactly one hour later (so later than the issue
\* time), and the fields of a token never change once it exists.
\* ------------------------------------------------------------------------
IssueTime(text) == DateParse(GetTime(text, "generatedAt"))
ExpiryTime(text) == DateParse(GetTime(text, "expiresAt"))

C14_MintedFields ==
    [][/\ Len(sessions') >= Len(sessions)
       /\ \A i \in 1..Len(sessions) :
            /\ sessions'[i].courseId = sessions[i].courseId
            /\ sessions'[i].qrCodeData = sessions[i].qrCodeData
            /\ sessions'[i].generatedAt = sessions[i].generatedAt
            /\ sessions'[i].expiresAt = sessions[i].expiresAt
       /\ \A i \in (Len(sessions) + 1)..Len(sessions') :
            LET row == sessions'[i]
            IN  /\ IssueTime(row.qrCodeData) = getPhilippineTime(now)
                /\ ExpiryTime(row.qrCodeData) = IssueTime(row.qrCodeData) + OneHour
                /\ ExpiryTime(row.qrCodeData) > IssueTime(row.qrCodeData)
                /\ row.generatedAt = GetTime(row.qrCodeData, "generatedAt")
                /\ row.expiresAt = GetTime(row.qrCodeData, "expiresAt")
    ]_vars

C14_Witness ==
    /\ Len(sessions) = MaxSessions
    /\ now > 0
    /\ \E k \in Cards :
        /\ genLog[k].phase = "done"
        /\ genLog[k].token = sessions[Len(sessions)].qrCodeData
        /\ IssueTime(genLog[k].token) = getPhilippineTime(now)

\* ------------------------------------------------------------------------
\* C15: a payload written by generateQRData and read back as
\* handleBarCodeScanned reads it gives the course id, code and name and the
\* two instants it was made from, under the member names courseId,
\* courseCode, courseName, generatedAt and expiresAt.
\* ------------------------------------------------------------------------
Keys(text) == {text.members[j].k : j \in 1..Len(text.members)}

DecodesTo(text, c, phTime, issueKey) ==
    /\ JsonParses(text)
    /\ Keys(text) = {"courseId", "courseCode", "courseName", issueKey, "expiresAt"}
    /\ GetStr(text, "courseId") = c
    /\ GetStr(text, "courseCode") = CourseCode(c)
    /\ GetStr(text, "courseName") = CourseName(c)
    /\ DateParse(GetTime(text, issueKey)) = phTime
    /\ DateParse(GetTime(text, "expiresAt")) = phTime + OneHour

C16_GenerateFailure ==
    [][\A k \in Cards :
        (cardPc[k] = "minting" /\ cardPc'[k] # "minting" /\ sessions' = sessions)
           => /\ alert'[k] = GenerateFailed
              /\ qrData'[k] = qrData[k]
              /\ showQRModal'[k] = showQRModal[k]
              /\ ~isLoading'[k]
              /\ cardPc'[k] = "idle"
              /\ ~showConfirmModal'[k]
    ]_vars

C16_Witness ==
    \E k \in Cards :
        /\ genLog[k].phase = "failed"
        /\ alert[k] = GenerateFailed
        /\ qrData[k] = NullQR
        /\ ~showQRModal[k]
        /\ ~isLoading[k]
        /\ cardPc[k] = "idle"

\* ------------------------------------------------------------------------
\* C17: every call of handleBarCodeScanned ends either with the success
\* modal or with the error modal and a non-empty message, never with both
\* set by the same call and never with neither; a wrong course, a missing
\* enrollment, an expired token and a duplicate each show their own message.
\* ------------------------------------------------------------------------
Resolves(d, slot) ==
    handlers[d][slot].pc # "idle" /\ handlers'[d][slot].pc = "idle"

RejectionOf(r) ==
    IF WellFormed(r.data) /\ r.course # "" /\ GetStr(r.data, "courseId") # r.course
    THEN "WrongCourse"
    ELSE IF PassedEarlierChecks(r) /\ ~r.posted
    THEN "Expired"
    ELSE IF WellFormed(r.data) /\ GetStr(r.data, "courseId") = r.course /\ ~r.listed
    THEN "NotEnrolled"
    ELSE IF r.posted /\ r.duplicate /\ r.outcome # "Network"
    THEN "AlreadyScanned"
    ELSE ""

C17_NoRejectionDropped ==
    [][\A d \in Devices : \A slot \in Slots :
        Resolves(d, slot) =>
            LET r == lastScan'[d]
            IN  /\ r.outcome # "none"
                /\ IF r.outcome = "Success"
                   THEN /\ showSuccessModal'[d]
                        /\ showErrorModal'[d] = showErrorModal[d]
                        /\ errorMessage'[d] = errorMessage[d]
                   ELSE /\ showErrorModal'[d]
                        /\ errorMessage'[d].kind \notin {"", "pass"}
                        /\ showSuccessModal'[d] = showSuccessModal[d]
                /\ RejectionOf(r) # "" => /\ r.outcome # "Success"
                                          /\ errorMessage'[d].kind = RejectionOf(r)
    ]_vars

C17_Witness ==
    \E d \in Devices :
        /\ lastScan[d].outcome = "NotEnrolled"
        /\ RejectionOf(lastScan[d]) = "NotEnrolled"
        /\ showErrorModal[d]
        /\ errorMessage[d].kind = "NotEnrolled"
        /\ ~showSuccessModal[d]

\* ------------------------------------------------------------------------
\* C18: after a call of handleBarCodeScanned that failed, the scanned flag
\* is false, the scanner and the course it was opened for are as the call
\* found them, and the backend holds no scan record of that call.
\* ------------------------------------------------------------------------
FailedScan(d, slot) == Resolves(d, slot) /\ lastScan'[d].outcome # "Success"

C18_ResetAfterFailure ==
    [][\A d \in Devices : \A slot \in Slots :
        FailedScan(d, slot)
           => /\ ~scanned'[d]
              /\ isScannerVisible'[d] = isScannerVisible[d]
              /\ currentScanningCourse'[d] = currentScanningCourse[d]
              /\ sessions' = sessions
    ]_vars

\* C18 with the record left open for a call that ended in a network error:
\* the request of such a call may have reached the backend
C18_ResetAfterFailure_Amended ==
    [][\A d \in Devices : \A slot \in Slots :
        FailedScan(d, slot)
           => /\ ~scanned'[d]
              /\ isScannerVisible'[d] = isScannerVisible[d]
              /\ currentScanningCourse'[d] = currentScanningCourse[d]
              /\ lastScan'[d].outcome # "Network" => sessions' = sessions
    ]_vars

C18_Witness ==
    \E d \in Devices :
        /\ lastScan[d].outcome = "AlreadyScanned"
        /\ ~scanned[d]
        /\ isScannerVisible[d]
        /\ currentScanningCourse[d] # NullCourse
        /\ showErrorModal[d]

\* ------------------------------------------------------------------------
\* C19: the badge value computed by a poll equals the number of scans, over
\* all sessions of the course, whose scannedAt lies within the five minutes
\* up to now, whatever the age of their session.
\* ------------------------------------------------------------------------
ScansWithin(c, from, to) ==
    {<<i, j>> \in (1..Len(sessions)) \X (1..Cardinality(Students)) :
        /\ sessions[i].courseId = c
        /\ j <= Len(sessions[i].scannedBy)
        /\ sessions[i].scannedBy[j].scannedAt >= from
        /\ sessions[i].scannedBy[j].scannedAt <= to}

C19_RecentScanCount ==
    \A k \in Cards :
        lastPoll[k] = "counted"
            => newScans[k] = Cardinality(ScansWithin(CardCourse(k), now - RecentWindow, now))

\* ------------------------------------------------------------------------
\* C20: a call of handleNewScan that starts less than three seconds after
\* lastCheckTime sends no request and changes neither the badge nor
\* lastCheckTime.
\* ------------------------------------------------------------------------
C20_PollThrottle ==
    [][\A k \in Cards :
        (lastPoll'[k] \in {"skipped", "sent"} /\ now - lastCheckTime[k] < 3 * OneSecond)
           => /\ lastPoll'[k] = "skipped"
              /\ polls'[k] = polls[k]
              /\ newScans'[k] = newScans[k]
              /\ lastCheckTime'[k] = lastCheckTime[k]
    ]_vars

C20_Witness ==
    \E k \in Cards :
        /\ lastPoll[k] = "skipped"
        /\ now > 0
        /\ now - lastCheckTime[k] < 3 * OneSecond
        /\ polls[k] = {}

\* ------------------------------------------------------------------------
\* C21: for one mounted card at most one request of the poller is in flight
\* at any time, however long the backend takes to answer.
\* ------------------------------------------------------------------------
C21_NoOverlappingPolls ==
    \A k \in Cards : mounted[k] => Cardinality(polls[k]) <= 1

\* ------------------------------------------------------------------------
\* C22: once a card is unmounted its poller starts no further request and
\* updates neither the badge nor lastCheckTime, also not from a request that
\* was in flight at unmount.
\* ------------------------------------------------------------------------
C22_PollerCancellation ==
    [][\A k \in Cards :
        (~mounted[k] /\ ~mounted'[k])
           => /\ polls'[k] \subseteq polls[k]
              /\ newScans'[k] = newScans[k]
              /\ lastCheckTime'[k] = lastCheckTime[k]
    ]_vars

\* ------------------------------------------------------------------------
\* C23: a poll whose request fails (it throws, or the answer is not OK)
\* leaves the badge and lastCheckTime as they were, shows no alert and
\* leaves the interval running; every later callback of the interval sends a
\* request again.
\* ------------------------------------------------------------------------
C23_PollErrorsSwallowed ==
    [][\A k \in Cards :
        /\ lastPoll'[k] = "dropped"
              => /\ newScans'[k] = newScans[k]
                 /\ lastCheckTime'[k] = lastCheckTime[k]
                 /\ alert'[k] = alert[k]
                 /\ mounted'[k] = mounted[k]
                 /\ nextTick'[k] = nextTick[k]
        /\ (mounted[k] /\ mounted'[k] /\ nextTick'[k] # nextTick[k])
              => /\ lastPoll'[k] = "sent"
                 /\ polls'[k] = polls[k] \cup {now}
    ]_vars

C23_Witness ==
    \E k \in Cards :
        /\ lastPoll[k] = "dropped"
        /\ mounted[k]
        /\ polls[k] = {}
        /\ newScans[k] = 0
        /\ alert[k] = ""
        /\ now >= nextTick[k]

\* ------------------------------------------------------------------------
\* C25: a card that mounts sends a poll request at once, before the first
\* callback of the interval.
\* ------------------------------------------------------------------------
C25_InitialPoll ==
    [][\A k \in Cards :
        (~mounted[k] /\ mounted'[k])
           => /\ lastPoll'[k] = "sent"
              /\ now \in polls'[k]
    ]_vars

\* ------------------------------------------------------------------------
\* C24: the list that handleViewAttendance shows holds exactly the sessions
\* returned for the course, ordered by generatedAt, latest first.
\* ------------------------------------------------------------------------
Occurrences(seq, r) == Cardinality({i \in 1..Len(seq) : seq[i] = r})

IsPermutation(a, b) ==
    /\ Len(a) = Len(b)
    /\ \A i \in 1..Len(a) : Occurrences(a, a[i]) = Occurrences(b, a[i])

LatestFirst(records) ==
    \A i, j \in 1..Len(records) :
        i < j => DateParse(records[i].generatedAt) >= DateParse(records[j].generatedAt)

C24_SessionOrder ==
    [][\A k \in Cards :
        (viewPc[k] = "fetching" /\ showAttendanceModal'[k])
           => /\ IsPermutation(attendanceRecords'[k],
                               ListSessionsForCourse(CardCourse(k)))
              /\ LatestFirst(attendanceRecords'[k])
    ]_vars

C24_Witness ==
    \E k \in Cards :
        /\ showAttendanceModal[k]
        /\ Len(attendanceRecords[k]) = 2
        /\ attendanceRecords[k][1] = sessions[2]
        /\ attendanceRecords[k][2] = sessions[1]
        /\ sessions[1].generatedAt # sessions[2].generatedAt

\* ------------------------------------------------------------------------
\* C26: a countdown tick that runs after the expiry of the token in qrData
\* sets the remaining time to 'expired', closes the QR modal and clears
\* qrData (which ends the countdown).
\* ------------------------------------------------------------------------
CountdownStep(k) ==
    /\ mounted[k] /\ mounted'[k]
    /\ qrData[k] # NullQR
    /\ remainingTime'[k] # remainingTime[k] \/ qrData'[k] = NullQR

C26_CountdownCloses ==
    [][\A k \in Cards :
        (/\ CountdownStep(k)
         /\ getPhilippineTime(now) > DateParse(qrData[k].expiresAt))
           => /\ remainingTime'[k].text = "expired"
              /\ ~showQRModal'[k]
              /\ qrData'[k] = NullQR
    ]_vars

C26_Witness ==
    \E k \in Cards :
        /\ ticks = 1
        /\ now = OneHour + OneSecond
        /\ Len(sessions) = 1
        /\ remainingTime[k].text = "expired"
        /\ ~showQRModal[k]
        /\ qrData[k] = NullQR

\* ------------------------------------------------------------------------
\* C27: while the token in qrData has not expired (now <= expiresAt), a
\* countdown tick does not report 'expired', does not close the QR modal and
\* does not clear qrData.
\* ------------------------------------------------------------------------
C27_ValidTokenStays ==
    [][\A k \in Cards :
        (/\ CountdownStep(k)
         /\ getPhilippineTime(now) <= DateParse(qrData[k].expiresAt))
           => /\ remainingTime'[k].text # "expired"
              /\ showQRModal'[k] = showQRModal[k]
              /\ qrData'[k] = qrData[k]
    ]_vars

\* ------------------------------------------------------------------------
\* C28: a mint request is sent only after a lookup whose fetch succeeded and
\* found no unexpired token; a failed lookup never leads to a mint.
\* ------------------------------------------------------------------------
C28_MintAfterSuccessfulLookup ==
    [][\A k \in Cards :
        (cardPc[k] # "minting" /\ cardPc'[k] = "minting")
           => genLog[k].phase = "looked"
    ]_vars

\* ------------------------------------------------------------------------
\* C29: the timer started by a successful scan never closes the scanner of,
\* or clears the intended course of, a scanning session the student opened
\* after that success.
\* ------------------------------------------------------------------------
C29_TimerKeepsLaterSession ==
    [][\A d \in Devices :
        (timers'[d] < timers[d] /\ reopened[d] /\ isScannerVisible[d])
           => /\ isScannerVisible'[d]
              /\ currentScanningCourse'[d] = currentScanningCourse[d]
    ]_vars

\* ------------------------------------------------------------------------
\* C30: once the attendance has been viewed, the badge stays 0 as long as
\* no scan is recorded that was not in the ledger at the time of viewing.
\* ------------------------------------------------------------------------
C30_BadgeStaysReset ==
    \A k \in Cards :
        (/\ viewed[k] >= 0
         /\ ScanCount(ListSessionsForCourse(CardCourse(k))) = viewed[k])
            => newScans[k] = 0

====
